---- MODULE Spec2Model ----
(***************************************************************************)
(* Model of pcsx2/Host/SDLAudioStream.cpp: the SDL3 audio output stream.   *)
(*                                                                         *)
(* Two execution contexts are modelled.  The control context runs          *)
(* CreateSDLAudioStream, OpenDevice, SetPaused, CloseDevice and the        *)
(* destructor; its position is pc.  The backend context runs AudioCallback *)
(* whenever a device stream is registered and its device is not paused;    *)
(* its position is pc_cb.                                                  *)
(*                                                                         *)
(* The backend (SDL) is represented by devStream, devPaused, devFrames and *)
(* destroyed.  A device stream opened by SDL_OpenAudioDeviceStream starts  *)
(* paused, and SDL_DestroyAudioStream does not return while the stream's   *)
(* callback is running.                                                    *)
(***************************************************************************)
EXTENDS Integers, Sequences, FiniteSets, TLC

\* ---------------------------------------------------------------- bounds
\* Number of device handles the backend hands out in one behaviour.
MaxOpens == 2

\* ------------------------------------------------------------- constants
\* sizeof(SampleType): signed 16-bit samples (SDL_AUDIO_S16).
SampleSize == 2

\* AudioExpansionMode, in the order of the sample_readers table.
Modes == <<"Disabled", "StereoLFE", "Quadraphonic", "QuadraphonicLFE", "Surround51", "Surround71">>

\* Number of output channels of each sample reader: the number of
\* READ_CHANNEL_* arguments of its instantiation (two for the stereo reader).
ReaderChannels == <<2, 3, 4, 5, 6, 8>>

ModeSet == {Modes[i] : i \in 1..Len(Modes)}

ModeIndex(mode) == CHOOSE i \in 1..Len(Modes) : Modes[i] = mode

\* sample_readers indexed without the mode: always the first entry.
sample_readers_First(mode) == [mode |-> Modes[1], channels |-> ReaderChannels[1]]

\* sample_readers[static_cast<size_t>(mode)]: the reader is identified by
\* its mode name and its output width.
sample_readers(mode) == [mode |-> mode, channels |-> ReaderChannels[ModeIndex(mode)]]

\* m_output_channels as set by the base constructor from the expansion mode.
OutputChannels(mode) == ReaderChannels[ModeIndex(mode)]

\* The channel roles each reader of the table is instantiated with.
ReaderRoles == <<
    <<"FRONT_LEFT", "FRONT_RIGHT">>,
    <<"FRONT_LEFT", "FRONT_RIGHT", "LFE">>,
    <<"FRONT_LEFT", "FRONT_RIGHT", "REAR_LEFT", "REAR_RIGHT">>,
    <<"FRONT_LEFT", "FRONT_RIGHT", "LFE", "REAR_LEFT", "REAR_RIGHT">>,
    <<"FRONT_LEFT", "FRONT_RIGHT", "FRONT_CENTER", "LFE", "REAR_LEFT", "REAR_RIGHT">>,
    <<"FRONT_LEFT", "FRONT_RIGHT", "FRONT_CENTER", "LFE", "SIDE_LEFT", "SIDE_RIGHT",
      "REAR_LEFT", "REAR_RIGHT">> >>

\* The roles a bound reader writes, position by position.
RolesOf(r) == ReaderRoles[ModeIndex(r.mode)]

\* m_sample_rate.
SampleRate == 48000

\* m_parameters.buffer_ms and m_parameters.output_latency_ms.
BufferMs == {50}
OutputLatencyMs == {20}

\* The latency part of AudioStreamParameters.
LatencyParameters ==
    [buffer_ms : BufferMs, output_latency_ms : OutputLatencyMs,
     minimal_output_latency : BOOLEAN]

DefaultParameters ==
    [buffer_ms |-> 50, output_latency_ms |-> 20, minimal_output_latency |-> FALSE]

\* AudioStream::GetBufferSizeForMS: the frames that cover ms milliseconds.
GetBufferSizeForMS(sample_rate, ms) == (sample_rate * ms + 999) \div 1000

\* Frame granularities the backend may negotiate for a device.
DeviceFrames == {1024, 2048}

\* Byte lengths the backend may request from the callback.
RequestBytes == {0, 64, 2048}

\* Return codes of SDL_InitSubSystem; the code treats any non-zero value as failure.
InitCodes == {0, 1}

VARIABLES
    initialized,          \* static bool initialized (InitializeSDLAudio)
    atexitCount,          \* number of std::atexit registrations
    error,                \* the caller's Error object: "none", "init", "open"
    obj,                  \* "none" or "alive": the SDLAudioStream object
    returned,             \* the caller holds the unique_ptr to the stream
    expansion_mode,       \* m_parameters.expansion_mode
    m_parameters,         \* m_parameters: buffer_ms, output_latency_ms, minimal_output_latency
    m_output_channels,
    m_device_stream,      \* 0 is nullptr, otherwise the handle
    m_sample_buffer,      \* [null, len]: unique_ptr<SampleType[]>
    m_sample_buffer_size,
    m_paused,
    reader,               \* reader passed to BaseInitialize, NoReader before
    pc,                   \* position of the control context
    inCreate,             \* OpenDevice was called by CreateSDLAudioStream
    sp_arg,               \* argument of the SetPaused call in progress
    sp_before,            \* m_paused when that call was entered
    devStream,            \* backend: registered stream (callback), 0 if none
    devPaused,            \* backend: device paused
    devFrames,            \* backend: negotiated frame granularity
    destroyed,            \* backend: SDL_DestroyAudioStream calls per handle
    nextHandle,           \* backend: next handle to hand out
    lastCall,             \* backend: last pause/resume call received
    pc_cb,                \* position of the callback context
    num_frames,           \* local of AudioCallback
    cb,                   \* record of the last callback invocation
    spHist,               \* SetPaused calls completed back to back
    createLog,            \* outcome of the last CreateSDLAudioStream
    openLog               \* outcome of the last OpenDevice

vars == <<initialized, atexitCount, error, obj, returned, expansion_mode, m_parameters,
          m_output_channels, m_device_stream, m_sample_buffer,
          m_sample_buffer_size, m_paused, reader, pc, inCreate, sp_arg, sp_before,
          devStream, devPaused, devFrames, destroyed, nextHandle, lastCall,
          pc_cb, num_frames, cb, spHist, createLog, openLog>>

objVars == <<obj, returned, expansion_mode, m_parameters, m_output_channels, m_paused, reader>>
streamVars == <<m_device_stream, m_sample_buffer, m_sample_buffer_size>>
initVars == <<initialized, atexitCount>>
devVars == <<devStream, devPaused, devFrames, destroyed, nextHandle>>
cbVars == <<pc_cb, num_frames, cb>>
spVars == <<sp_arg, sp_before>>

Handles == 1..MaxOpens

NullBuffer == [null |-> TRUE, len |-> 0]

NoReader == [mode |-> "none", channels |-> 0]

NoCall == [kind |-> "none", dev |-> 0, ok |-> FALSE]

NoCallback == [done |-> FALSE, bytes |-> 0, req |-> 0, cap |-> 0,
               frames |-> 0, buflen |-> 0, put |-> FALSE, putFrames |-> 0]

NoCreate == [result |-> "none", openAttempted |-> FALSE, sdlInit |-> "none"]

NoOpen == [result |-> "none", queryOk |-> FALSE, obtained |-> 0, frames |-> 0,
           hintMs |-> 0, hintFrames |-> 0, hintOk |-> FALSE, openOk |-> FALSE]

Min(a, b) == IF a < b THEN a ELSE b

\* __fi bool IsOpen() const
IsOpen == m_device_stream # 0

\* CalculateSampleCount that forgets the channel count.
CalculateSampleCount_NoChannels(bytes_len) == bytes_len \div SampleSize

\* __fi u32 CalculateSampleCount(u32 bytes_len) const
CalculateSampleCount(bytes_len) == (bytes_len \div SampleSize) \div m_output_channels

Init ==
    /\ initialized = FALSE
    /\ atexitCount = 0
    /\ error = "none"
    /\ obj = "none"
    /\ returned = FALSE
    /\ expansion_mode = "Disabled"
    /\ m_parameters = DefaultParameters
    /\ m_output_channels = OutputChannels("Disabled")
    /\ m_device_stream = 0
    /\ m_sample_buffer = NullBuffer
    /\ m_sample_buffer_size = 0
    /\ m_paused = FALSE
    /\ reader = NoReader
    /\ pc = "idle"
    /\ inCreate = FALSE
    /\ sp_arg = FALSE
    /\ sp_before = FALSE
    /\ devStream = 0
    /\ devPaused = FALSE
    /\ devFrames = 0
    /\ destroyed = [h \in Handles |-> 0]
    /\ nextHandle = 1
    /\ lastCall = NoCall
    /\ pc_cb = "idle"
    /\ num_frames = 0
    /\ cb = NoCallback
    /\ spHist = <<>>
    /\ createLog = NoCreate
    /\ openLog = NoOpen

\* static bool InitializeSDLAudio(Error* error); rc is what SDL_InitSubSystem
\* returns when it is called.  InitializeSDLAudioResult is the return value.
InitializeSDLAudioResult(rc) == initialized \/ rc = 0

\* Whether InitializeSDLAudio calls SDL_InitSubSystem, and with what outcome.
InitializeSDLAudioCall(rc) ==
    IF initialized THEN "skipped" ELSE IF rc # 0 THEN "failed" ELSE "ok"

\* InitializeSDLAudio without the initialized guard of lines 43-44.
InitializeSDLAudio_NoFlag(rc) ==
    IF rc # 0
    THEN /\ error' = "init"
         /\ UNCHANGED initVars
    ELSE /\ atexitCount' = atexitCount + 1
         /\ initialized' = TRUE
         /\ error' = "none"

InitializeSDLAudio(rc) ==
    IF initialized
    THEN /\ UNCHANGED initVars
         /\ error' = "none"
    ELSE IF rc # 0
         THEN /\ error' = "init"
              /\ UNCHANGED initVars
         ELSE /\ atexitCount' = atexitCount + 1
              /\ initialized' = TRUE
              /\ error' = "none"

\* SDLAudioStream::SDLAudioStream: the members start as nullptr / nullptr / 0.
\* m_paused belongs to the base class; its initial value is paused0.
Constructor(mode, parameters, paused0) ==
    /\ obj' = "alive"
    /\ expansion_mode' = mode
    /\ m_parameters' = parameters
    /\ m_output_channels' = OutputChannels(mode)
    /\ m_paused' = paused0
    /\ reader' = NoReader
    /\ m_device_stream' = 0
    /\ m_sample_buffer' = NullBuffer
    /\ m_sample_buffer_size' = 0

\* CreateSDLAudioStream, lines 73-76: InitializeSDLAudio and make_unique.
CreateSDLAudioStream_Init(rc, mode, parameters, paused0) ==
    /\ pc = "idle"
    /\ obj = "none"
    /\ InitializeSDLAudio(rc)
    /\ IF InitializeSDLAudioResult(rc)
       THEN /\ Constructor(mode, parameters, paused0)
            /\ pc' = "OpenDevice"
            /\ inCreate' = TRUE
            /\ createLog' = [result |-> "pending", openAttempted |-> FALSE,
                             sdlInit |-> InitializeSDLAudioCall(rc)]
            /\ UNCHANGED returned
       ELSE /\ createLog' = [result |-> "init_failed", openAttempted |-> FALSE,
                             sdlInit |-> InitializeSDLAudioCall(rc)]
            /\ UNCHANGED <<objVars, streamVars, pc, inCreate>>
    /\ spHist' = <<>>
    /\ UNCHANGED <<spVars, devVars, lastCall, cbVars, openLog>>

\* The latency the hint is computed from, line 108.
HintLatencyMs ==
    IF m_parameters.minimal_output_latency
    THEN m_parameters.buffer_ms
    ELSE m_parameters.output_latency_ms

\* u32 sample_frames of OpenDevice, line 108.
sample_frames == GetBufferSizeForMS(SampleRate, HintLatencyMs)

\* OpenDevice that resumes the device as soon as the stream is open, before
\* the scratch buffer exists.
OpenDevice_Open_Running(hintOk, openOk, frames) ==
    /\ pc = "OpenDevice"
    /\ ~IsOpen
    /\ openOk => nextHandle <= MaxOpens
    /\ createLog' = IF inCreate THEN [createLog EXCEPT !.openAttempted = TRUE] ELSE createLog
    /\ IF openOk
       THEN /\ m_device_stream' = nextHandle
            /\ devStream' = nextHandle
            /\ devPaused' = FALSE
            /\ devFrames' = frames
            /\ nextHandle' = nextHandle + 1
            /\ pc' = "open_query"
            /\ openLog' = [NoOpen EXCEPT !.result = "pending",
                                         !.hintMs = HintLatencyMs,
                                         !.hintFrames = sample_frames,
                                         !.hintOk = hintOk,
                                         !.openOk = openOk]
            /\ UNCHANGED <<error, destroyed>>
       ELSE /\ m_device_stream' = 0
            /\ error' = "open"
            /\ pc' = IF inCreate THEN "create_reset" ELSE "idle"
            /\ openLog' = [NoOpen EXCEPT !.result = "failed",
                                         !.hintMs = HintLatencyMs,
                                         !.hintFrames = sample_frames,
                                         !.hintOk = hintOk,
                                         !.openOk = openOk]
            /\ UNCHANGED devVars
    /\ UNCHANGED <<initVars, objVars, m_sample_buffer, m_sample_buffer_size,
                   inCreate, spVars, lastCall, cbVars, spHist>>

\* OpenDevice that gives up when SDL_SetHint rejects the hint.
OpenDevice_Open_HintFatal(hintOk, openOk, frames) ==
    /\ pc = "OpenDevice"
    /\ ~IsOpen
    /\ openOk => nextHandle <= MaxOpens
    /\ createLog' = IF inCreate THEN [createLog EXCEPT !.openAttempted = TRUE] ELSE createLog
    /\ IF openOk /\ hintOk
       THEN /\ m_device_stream' = nextHandle
            /\ devStream' = nextHandle
            /\ devPaused' = TRUE
            /\ devFrames' = frames
            /\ nextHandle' = nextHandle + 1
            /\ pc' = "open_query"
            /\ openLog' = [NoOpen EXCEPT !.result = "pending",
                                         !.hintMs = HintLatencyMs,
                                         !.hintFrames = sample_frames,
                                         !.hintOk = hintOk,
                                         !.openOk = openOk]
            /\ UNCHANGED <<error, destroyed>>
       ELSE /\ m_device_stream' = 0
            /\ error' = "open"
            /\ pc' = IF inCreate THEN "create_reset" ELSE "idle"
            /\ openLog' = [NoOpen EXCEPT !.result = "failed",
                                         !.hintMs = HintLatencyMs,
                                         !.hintFrames = sample_frames,
                                         !.hintOk = hintOk,
                                         !.openOk = openOk]
            /\ UNCHANGED devVars
    /\ UNCHANGED <<initVars, objVars, m_sample_buffer, m_sample_buffer_size,
                   inCreate, spVars, lastCall, cbVars, spHist>>

\* OpenDevice, lines 108-121: the hint, the spec and SDL_OpenAudioDeviceStream.
\* hintOk is SDL_SetHint's answer, openOk the backend's answer to the open
\* and frames the granularity it negotiates.
OpenDevice_Open(hintOk, openOk, frames) ==
    /\ pc = "OpenDevice"
    /\ ~IsOpen
    /\ openOk => nextHandle <= MaxOpens
    /\ createLog' = IF inCreate THEN [createLog EXCEPT !.openAttempted = TRUE] ELSE createLog
    /\ IF openOk
       THEN /\ m_device_stream' = nextHandle
            /\ devStream' = nextHandle
            /\ devPaused' = TRUE
            /\ devFrames' = frames
            /\ nextHandle' = nextHandle + 1
            /\ pc' = "open_query"
            /\ openLog' = [NoOpen EXCEPT !.result = "pending",
                                         !.hintMs = HintLatencyMs,
                                         !.hintFrames = sample_frames,
                                         !.hintOk = hintOk,
                                         !.openOk = openOk]
            /\ UNCHANGED <<error, destroyed>>
       ELSE /\ m_device_stream' = 0
            /\ error' = "open"
            /\ pc' = IF inCreate THEN "create_reset" ELSE "idle"
            /\ openLog' = [NoOpen EXCEPT !.result = "failed",
                                         !.hintMs = HintLatencyMs,
                                         !.hintFrames = sample_frames,
                                         !.hintOk = hintOk,
                                         !.openOk = openOk]
            /\ UNCHANGED devVars
    /\ UNCHANGED <<initVars, objVars, m_sample_buffer, m_sample_buffer_size,
                   inCreate, spVars, lastCall, cbVars, spHist>>

\* OpenDevice that returns without BaseInitialize.
OpenDevice_Finish_NoBaseInit(queryOk) ==
    /\ pc = "open_query"
    /\ LET obtained_sample_frames == IF queryOk THEN devFrames ELSE 0
           size == CalculateSampleCount(obtained_sample_frames)
       IN /\ m_sample_buffer_size' = size
          /\ m_sample_buffer' = [null |-> FALSE, len |-> size]
          /\ openLog' = [openLog EXCEPT !.result = "ok",
                                         !.queryOk = queryOk,
                                         !.obtained = obtained_sample_frames,
                                         !.frames = devFrames]
    /\ reader' = reader
    /\ returned' = (returned \/ inCreate)
    /\ createLog' = IF inCreate THEN [createLog EXCEPT !.result = "ok"] ELSE createLog
    /\ inCreate' = FALSE
    /\ pc' = "idle"
    /\ UNCHANGED <<initVars, error, obj, expansion_mode, m_parameters, m_output_channels, m_paused,
                   m_device_stream, spVars, devVars, lastCall, cbVars, spHist>>

\* OpenDevice that sizes the buffer from the hint when the format query fails.
OpenDevice_Finish_HintFallback(queryOk) ==
    /\ pc = "open_query"
    /\ LET obtained_sample_frames == IF queryOk THEN devFrames ELSE sample_frames
           size == CalculateSampleCount(obtained_sample_frames)
       IN /\ m_sample_buffer_size' = size
          /\ m_sample_buffer' = [null |-> FALSE, len |-> size]
          /\ openLog' = [openLog EXCEPT !.result = "ok",
                                         !.queryOk = queryOk,
                                         !.obtained = obtained_sample_frames,
                                         !.frames = devFrames]
    /\ reader' = sample_readers(expansion_mode)
    /\ returned' = (returned \/ inCreate)
    /\ createLog' = IF inCreate THEN [createLog EXCEPT !.result = "ok"] ELSE createLog
    /\ inCreate' = FALSE
    /\ pc' = "idle"
    /\ UNCHANGED <<initVars, error, obj, expansion_mode, m_parameters, m_output_channels, m_paused,
                   m_device_stream, spVars, devVars, lastCall, cbVars, spHist>>

\* OpenDevice, lines 123-135: the format query, the scratch buffer and
\* BaseInitialize; then CreateSDLAudioStream returns the stream.
OpenDevice_Finish(queryOk) ==
    /\ pc = "open_query"
    /\ LET obtained_sample_frames == IF queryOk THEN devFrames ELSE 0
           size == CalculateSampleCount(obtained_sample_frames)
       IN /\ m_sample_buffer_size' = size
          /\ m_sample_buffer' = [null |-> FALSE, len |-> size]
          /\ openLog' = [openLog EXCEPT !.result = "ok",
                                         !.queryOk = queryOk,
                                         !.obtained = obtained_sample_frames,
                                         !.frames = devFrames]
    /\ reader' = sample_readers(expansion_mode)
    /\ returned' = (returned \/ inCreate)
    /\ createLog' = IF inCreate THEN [createLog EXCEPT !.result = "ok"] ELSE createLog
    /\ inCreate' = FALSE
    /\ pc' = "idle"
    /\ UNCHANGED <<initVars, error, obj, expansion_mode, m_parameters, m_output_channels, m_paused,
                   m_device_stream, spVars, devVars, lastCall, cbVars, spHist>>

\* void SDLAudioStream::CloseDevice(); SDL_DestroyAudioStream closes the
\* device with the stream.
CloseDevice ==
    /\ destroyed' = IF m_device_stream \in Handles
                    THEN [destroyed EXCEPT ![m_device_stream] = @ + 1]
                    ELSE destroyed
    /\ devStream' = IF devStream = m_device_stream THEN 0 ELSE devStream
    /\ devPaused' = FALSE
    /\ devFrames' = 0
    /\ m_device_stream' = 0
    /\ m_sample_buffer_size' = 0

\* Destructor without the CloseDevice call: the handle is leaked.
Destructor_NoClose ==
    /\ UNCHANGED <<destroyed, devStream, devPaused, devFrames>>
    /\ m_device_stream' = 0
    /\ m_sample_buffer_size' = 0
    /\ m_sample_buffer' = NullBuffer
    /\ obj' = "none"
    /\ returned' = FALSE
    /\ expansion_mode' = "Disabled"
    /\ m_parameters' = DefaultParameters
    /\ m_output_channels' = OutputChannels("Disabled")
    /\ m_paused' = FALSE
    /\ reader' = NoReader

\* SDLAudioStream::~SDLAudioStream, then the members are destroyed and the
\* object is gone (its fields return to the values they have in Init).
Destructor ==
    /\ IF IsOpen
       THEN CloseDevice
       ELSE UNCHANGED <<destroyed, devStream, devPaused, devFrames, m_device_stream,
                        m_sample_buffer_size>>
    /\ m_sample_buffer' = NullBuffer
    /\ obj' = "none"
    /\ returned' = FALSE
    /\ expansion_mode' = "Disabled"
    /\ m_parameters' = DefaultParameters
    /\ m_output_channels' = OutputChannels("Disabled")
    /\ m_paused' = FALSE
    /\ reader' = NoReader

\* CreateSDLAudioStream that hands the stream to the caller although
\* OpenDevice failed.
CreateSDLAudioStream_Reset_Keep ==
    /\ pc = "create_reset"
    /\ returned' = TRUE
    /\ createLog' = [createLog EXCEPT !.result = "open_failed"]
    /\ pc' = "idle"
    /\ inCreate' = FALSE
    /\ UNCHANGED <<initVars, error, obj, expansion_mode, m_parameters, m_output_channels, m_paused,
                   reader, streamVars, spVars, devVars, lastCall, cbVars, spHist, openLog>>

\* CreateSDLAudioStream, lines 77-80: OpenDevice returned false, stream.reset().
CreateSDLAudioStream_Reset ==
    /\ pc = "create_reset"
    /\ Destructor
    /\ createLog' = [createLog EXCEPT !.result = "open_failed"]
    /\ pc' = "idle"
    /\ inCreate' = FALSE
    /\ UNCHANGED <<initVars, error, spVars, nextHandle,
                   lastCall, cbVars, spHist, openLog>>

\* The SetPaused calls completed since the last other control operation; the
\* two most recent are kept.  n alternates so that every call is a new entry.
Record(h, arg, before, calls) ==
    LET r == [arg |-> arg, before |-> before, calls |-> calls, open |-> IsOpen,
              n |-> IF h = <<>> THEN 0 ELSE 1 - h[Len(h)].n]
    IN IF Len(h) < 2 THEN Append(h, r) ELSE <<h[2], r>>

\* SetPaused without the early return of lines 140-141.
SetPaused_Call_NoGuard(paused, ok) ==
    /\ pc = "idle"
    /\ obj = "alive"
    /\ returned
    /\ LET device_id == m_device_stream
           acted == ok /\ device_id # 0 /\ device_id = devStream
       IN /\ lastCall' = [kind |-> IF paused THEN "pause" ELSE "resume",
                          dev |-> device_id, ok |-> acted]
          /\ devPaused' = IF acted THEN paused ELSE devPaused
    /\ sp_arg' = paused
    /\ sp_before' = m_paused
    /\ pc' = "sp_set"
    /\ UNCHANGED spHist
    /\ UNCHANGED <<initVars, error, objVars, streamVars, inCreate, devStream, devFrames,
                   destroyed, nextHandle, cbVars, createLog, openLog>>

\* SetPaused that records the new state before the backend has been called.
SetPaused_Call_Speculative(paused, ok) ==
    /\ pc = "idle"
    /\ obj = "alive"
    /\ returned
    /\ IF m_paused = paused
       THEN /\ spHist' = Record(spHist, paused, m_paused, 0)
            /\ UNCHANGED <<pc, spVars, devPaused, lastCall, m_paused>>
       ELSE /\ m_paused' = paused
            /\ sp_arg' = paused
            /\ sp_before' = m_paused
            /\ pc' = "sp_set"
            /\ UNCHANGED <<spHist, devPaused, lastCall>>
    /\ UNCHANGED <<initVars, error, obj, returned, expansion_mode, m_parameters, m_output_channels,
                   reader, streamVars, inCreate, devStream, devFrames,
                   destroyed, nextHandle, cbVars, createLog, openLog>>

\* SetPaused, lines 140-147: the early return, or the backend call.  ok is
\* the backend's answer; a call on device id 0 (no stream) never succeeds.
SetPaused_Call(paused, ok) ==
    /\ pc = "idle"
    /\ obj = "alive"
    /\ returned
    /\ IF m_paused = paused
       THEN /\ spHist' = Record(spHist, paused, m_paused, 0)
            /\ UNCHANGED <<pc, spVars, devPaused, lastCall>>
       ELSE /\ LET device_id == m_device_stream
                   acted == ok /\ device_id # 0 /\ device_id = devStream
               IN /\ lastCall' = [kind |-> IF paused THEN "pause" ELSE "resume",
                                  dev |-> device_id, ok |-> acted]
                  /\ devPaused' = IF acted THEN paused ELSE devPaused
            /\ sp_arg' = paused
            /\ sp_before' = m_paused
            /\ pc' = "sp_set"
            /\ UNCHANGED spHist
    /\ UNCHANGED <<initVars, error, objVars, streamVars, inCreate, devStream, devFrames,
                   destroyed, nextHandle, cbVars, createLog, openLog>>

\* SetPaused, line 149: m_paused = paused, and return.
SetPaused_Set ==
    /\ pc = "sp_set"
    /\ m_paused' = sp_arg
    /\ spHist' = Record(spHist, sp_arg, sp_before, 1)
    /\ pc' = "idle"
    /\ UNCHANGED <<initVars, error, obj, returned, expansion_mode, m_parameters, m_output_channels,
                   reader, streamVars, inCreate, spVars, devVars, lastCall, cbVars,
                   createLog, openLog>>

\* The owner calls CloseDevice on an open stream (callers check the open
\* state first).  SDL_DestroyAudioStream waits for a running callback; the
\* records of the open and of the device's calls end with the device.
CallCloseDevice ==
    /\ pc = "idle"
    /\ obj = "alive"
    /\ returned
    /\ IsOpen
    /\ pc_cb = "idle"
    /\ CloseDevice
    /\ spHist' = <<>>
    /\ cb' = NoCallback
    /\ lastCall' = NoCall
    /\ openLog' = NoOpen
    /\ UNCHANGED <<initVars, error, objVars, m_sample_buffer, pc, inCreate, spVars,
                   nextHandle, pc_cb, num_frames, createLog>>

\* The owner calls OpenDevice again on a closed stream (pxAssert(!IsOpen())).
CallOpenDevice ==
    /\ pc = "idle"
    /\ obj = "alive"
    /\ returned
    /\ ~IsOpen
    /\ pc' = "OpenDevice"
    /\ inCreate' = FALSE
    /\ error' = "none"
    /\ spHist' = <<>>
    /\ UNCHANGED <<initVars, objVars, streamVars, spVars, devVars, lastCall, cbVars,
                   createLog, openLog>>

\* The owner releases the unique_ptr: ~SDLAudioStream runs.  The records of
\* the stream's calls end with the stream.
DestroyStream ==
    /\ pc = "idle"
    /\ obj = "alive"
    /\ returned
    /\ IsOpen => pc_cb = "idle"
    /\ Destructor
    /\ spHist' = <<>>
    /\ lastCall' = NoCall
    /\ cb' = NoCallback
    /\ openLog' = NoOpen
    /\ createLog' = NoCreate
    /\ UNCHANGED <<initVars, error, pc, inCreate, spVars,
                   nextHandle, pc_cb, num_frames>>

\* AudioCallback without the clamp of lines 164-167.
AudioCallback_Begin_NoClamp(additional_amount) ==
    /\ pc_cb = "idle"
    /\ devStream # 0
    /\ ~devPaused
    /\ num_frames' = CalculateSampleCount(additional_amount)
    /\ cb' = [NoCallback EXCEPT !.bytes = additional_amount,
                                !.req = CalculateSampleCount(additional_amount),
                                !.cap = m_sample_buffer_size]
    /\ pc_cb' = "read"
    /\ UNCHANGED <<initVars, error, objVars, streamVars, pc, inCreate, spVars, devVars,
                   lastCall, spHist, createLog, openLog>>

\* AudioCallback whose clamp assigns the wrong way round: the capacity takes
\* the requested count.
AudioCallback_Begin_StoreClamp(additional_amount) ==
    /\ pc_cb = "idle"
    /\ devStream # 0
    /\ ~devPaused
    /\ LET requested == CalculateSampleCount(additional_amount)
       IN /\ num_frames' = requested
          /\ m_sample_buffer_size' = IF requested > m_sample_buffer_size
                                     THEN requested
                                     ELSE m_sample_buffer_size
          /\ cb' = [NoCallback EXCEPT !.bytes = additional_amount,
                                      !.req = requested,
                                      !.cap = m_sample_buffer_size]
    /\ pc_cb' = "read"
    /\ UNCHANGED <<initVars, error, objVars, m_device_stream, m_sample_buffer, pc, inCreate,
                   spVars, devVars, lastCall, spHist, createLog, openLog>>

\* AudioCallback, lines 161-167: the backend asks for additional_amount
\* bytes; the frame count is computed and clamped to m_sample_buffer_size.
AudioCallback_Begin(additional_amount) ==
    /\ pc_cb = "idle"
    /\ devStream # 0
    /\ ~devPaused
    /\ LET requested == CalculateSampleCount(additional_amount)
       IN /\ num_frames' = IF requested > m_sample_buffer_size
                           THEN m_sample_buffer_size
                           ELSE requested
          /\ cb' = [NoCallback EXCEPT !.bytes = additional_amount,
                                      !.req = requested,
                                      !.cap = m_sample_buffer_size]
    /\ pc_cb' = "read"
    /\ UNCHANGED <<initVars, error, objVars, streamVars, pc, inCreate, spVars, devVars,
                   lastCall, spHist, createLog, openLog>>

\* AudioCallback, lines 169-170: ReadFrames(m_sample_buffer.get(), num_frames)
\* and return.  Nothing is handed to the stream: the function ends with the
\* ReadFrames call.
AudioCallback_ReadFrames ==
    /\ pc_cb = "read"
    /\ cb' = [cb EXCEPT !.done = TRUE,
                        !.frames = num_frames,
                        !.buflen = m_sample_buffer.len,
                        !.put = FALSE,
                        !.putFrames = 0]
    /\ num_frames' = 0
    /\ pc_cb' = "idle"
    /\ UNCHANGED <<initVars, error, objVars, streamVars, pc, inCreate, spVars, devVars,
                   lastCall, spHist, createLog, openLog>>

Next ==
    \/ \E rc \in InitCodes, mode \in ModeSet, parameters \in LatencyParameters,
          paused0 \in BOOLEAN :
          CreateSDLAudioStream_Init(rc, mode, parameters, paused0)
    \/ \E hintOk \in BOOLEAN, openOk \in BOOLEAN, frames \in DeviceFrames :
          OpenDevice_Open(hintOk, openOk, frames)
    \/ \E queryOk \in BOOLEAN : OpenDevice_Finish(queryOk)
    \/ CreateSDLAudioStream_Reset
    \/ \E paused \in BOOLEAN, ok \in BOOLEAN : SetPaused_Call(paused, ok)
    \/ SetPaused_Set
    \/ CallCloseDevice
    \/ CallOpenDevice
    \/ DestroyStream
    \/ \E additional_amount \in RequestBytes : AudioCallback_Begin(additional_amount)
    \/ AudioCallback_ReadFrames

Spec == Init /\ [][Next]_vars

\* ------------------------------------------------------------ properties

\* Everything but the record of completed SetPaused calls.
progVars == <<initialized, atexitCount, error, obj, returned, expansion_mode, m_parameters,
              m_output_channels, m_device_stream, m_sample_buffer,
              m_sample_buffer_size, m_paused, reader, pc, inCreate, sp_arg, sp_before,
              devStream, devPaused, devFrames, destroyed, nextHandle, lastCall,
              pc_cb, num_frames, cb, createLog, openLog>>

\* The backend device exists and is not paused: it invokes the callback.
DeviceRunning == devStream # 0 /\ ~devPaused

\* C1: the samples a callback lets the producer write (frames pulled times the
\* output channel count) never exceed the samples allocated for the scratch
\* buffer in OpenDevice.
C1_NoOverrun ==
    cb.done => cb.frames * m_output_channels <= cb.buflen

\* C2: the frame count passed to ReadFrames is min(requested frames, recorded
\* capacity), the capacity being m_sample_buffer_size during the whole
\* invocation, and a callback step never touches the error or the control
\* context.
C2_Clamp ==
    /\ pc_cb = "read" => /\ cb.cap = m_sample_buffer_size
                         /\ num_frames = Min(cb.req, m_sample_buffer_size)
    /\ cb.done => /\ cb.frames = Min(cb.req, cb.cap)
                  /\ cb.frames <= cb.cap

C2_ClampedRead ==
    /\ []C2_Clamp
    /\ [][pc_cb' # pc_cb => (error' = error /\ pc' = pc)]_vars

C2_Witness ==
    /\ cb.done
    /\ cb.cap > 0
    /\ cb.req > cb.cap
    /\ cb.frames = cb.cap

\* C3: every callback invocation that pulled frames hands exactly those
\* frames back to the backend stream before it returns.
C3_Submitted ==
    cb.done => (cb.put /\ cb.putFrames = cb.frames)

\* C4: after a successful OpenDevice whose format query succeeded, the scratch
\* capacity in frames equals the granularity the backend reports.
C4_CapacityIsGranularity ==
    (IsOpen /\ pc = "idle" /\ openLog.result = "ok" /\ openLog.queryOk)
        => m_sample_buffer_size = devFrames

\* C5: the callback converts the byte length to frames as bytes / 2 / channels
\* (integer division) and pulls exactly that many frames when the count does
\* not exceed the capacity.
C5_BytesToFrames ==
    /\ (pc_cb = "read" \/ cb.done) => cb.req = (cb.bytes \div 2) \div m_output_channels
    /\ (pc_cb = "read" /\ cb.req <= cb.cap) => num_frames = cb.req
    /\ (cb.done /\ cb.req <= cb.cap) => cb.frames = (cb.bytes \div 2) \div m_output_channels

C5_Witness ==
    /\ cb.done
    /\ expansion_mode = "Surround51"
    /\ m_output_channels = 6
    /\ cb.bytes = 2048
    /\ cb.frames = 170

\* C6 as claimed: the recorded paused flag is never true while the backend
\* device is unpaused and invoking the callback.
C6_NeverPausedWhileRunning ==
    obj = "alive" => ~(m_paused /\ DeviceRunning)

\* C6: SetPaused changes the flag only as its last step, after it has issued
\* the matching backend pause/resume call for the stream's device.
C6_FlagFollowsBackendCall ==
    [][(obj = "alive" /\ obj' = "alive" /\ m_paused' # m_paused)
          => /\ pc = "sp_set"
             /\ pc' = "idle"
             /\ m_paused' = sp_arg
             /\ lastCall.kind = (IF sp_arg THEN "pause" ELSE "resume")
             /\ lastCall.dev = m_device_stream]_vars

C6_Witness ==
    /\ IsOpen
    /\ pc = "idle"
    /\ spHist # <<>>
    /\ spHist[Len(spHist)].calls = 1
    /\ spHist[Len(spHist)].arg = TRUE
    /\ m_paused
    /\ lastCall = [kind |-> "pause", dev |-> m_device_stream, ok |-> TRUE]
    /\ devPaused

\* Two SetPaused(true) calls on an open stream, one immediately after the other.
PausedTwice ==
    /\ Len(spHist) = 2
    /\ spHist[1].arg /\ spHist[2].arg
    /\ spHist[1].open /\ spHist[2].open

\* A SetPaused call whose argument equals the recorded state makes no backend call.
NoOpMakesNoCall ==
    \A i \in 1..Len(spHist) : spHist[i].calls = (IF spHist[i].before = spHist[i].arg THEN 0 ELSE 1)

\* C7 as claimed: a SetPaused call that finds the state already recorded makes
\* no backend call, and SetPaused(true) twice in a row triggers exactly one
\* backend pause call.
C7_ExactlyOnePause ==
    /\ NoOpMakesNoCall
    /\ PausedTwice => spHist[1].calls + spHist[2].calls = 1

\* C7: a SetPaused call that finds the state already recorded makes no backend
\* call and changes no state; of two SetPaused(true) calls in a row the second
\* makes no backend call, and the first makes one exactly when the flag was
\* false before it.
C7_Idempotent ==
    /\ [](/\ NoOpMakesNoCall
          /\ PausedTwice => /\ spHist[2].calls = 0
                            /\ spHist[1].calls = (IF spHist[1].before THEN 0 ELSE 1))
    /\ [][(spHist' # spHist /\ spHist' # <<>> /\ spHist'[Len(spHist')].calls = 0)
             => UNCHANGED progVars]_vars

C7_Witness ==
    /\ PausedTwice
    /\ spHist[1].calls = 1
    /\ spHist[2].calls = 0
    /\ m_paused

\* C8: stream creation is all-or-nothing.  A failed initialization attempts no
\* device open and returns nothing; a failed open sets the error, leaves the
\* handle null and the capacity 0, registers no callback and returns nothing;
\* a stream is returned only when it is fully open.
C8_FailedCreate ==
    /\ createLog.result = "init_failed"
          => (~createLog.openAttempted /\ obj = "none" /\ ~returned /\ error = "init")
    /\ pc = "create_reset"
          => /\ error = "open"
             /\ m_device_stream = 0
             /\ m_sample_buffer_size = 0
             /\ devStream = 0
             /\ ~returned
    /\ createLog.result = "open_failed"
          => (createLog.openAttempted /\ obj = "none" /\ ~returned /\ devStream = 0)
    /\ returned => obj = "alive"

C8_AllOrNothing ==
    /\ []C8_FailedCreate
    /\ [][(~returned /\ returned')
             => /\ IsOpen'
                /\ devStream' = m_device_stream'
                /\ ~m_sample_buffer'.null
                /\ reader' = sample_readers(expansion_mode')
                /\ createLog'.result = "ok"]_vars

C8_Witness ==
    /\ createLog.result = "open_failed"
    /\ error = "open"
    /\ obj = "none"
    /\ initialized

\* C9: on a stream that is not open, SetPaused issues no pause/resume call to
\* the backend and leaves the recorded paused state alone.
C9_ClosedSetPausedIsNoOp ==
    /\ lastCall.kind # "none" => lastCall.dev # 0
    /\ pc = "sp_set" => IsOpen
    /\ \A i \in 1..Len(spHist) : ~spHist[i].open => spHist[i].calls = 0

\* C10: every device handle obtained by a successful open is destroyed exactly
\* once: never twice, not while it is the stream's handle, and no handle
\* outlives the object.
C10_DestroyedOnce ==
    /\ \A h \in Handles :
          /\ destroyed[h] <= 1
          /\ h >= nextHandle => destroyed[h] = 0
          /\ (h < nextHandle /\ h = m_device_stream) => destroyed[h] = 0
          /\ (h < nextHandle /\ h # m_device_stream) => destroyed[h] = 1
    /\ obj = "none" => (m_device_stream = 0 /\ devStream = 0)
    /\ devStream = m_device_stream

C10_Witness ==
    /\ obj = "none"
    /\ nextHandle = MaxOpens + 1
    /\ \A h \in Handles : destroyed[h] = 1

\* C11 as claimed: the hint comes from one latency value, and when the
\* minimal-latency flag is set that value is no larger than the one used
\* when the flag is clear (the output latency target).
C11_MinimalIsSmaller ==
    (obj = "alive" /\ openLog.result # "none")
        => /\ openLog.hintMs \in {m_parameters.buffer_ms, m_parameters.output_latency_ms}
           /\ m_parameters.minimal_output_latency
                 => openLog.hintMs <= m_parameters.output_latency_ms

\* C12: the reader table has an entry for each of the six modes, the reader
\* bound by an open is the entry of the configured mode, and its first two
\* output positions are front-left and front-right, in that order.
C12_ReaderTable ==
    /\ Len(Modes) = 6
    /\ \A mode \in ModeSet : ModeIndex(mode) \in 1..Len(ReaderRoles)
    /\ (IsOpen /\ pc = "idle") => reader # NoReader
    /\ reader # NoReader
          => /\ reader.mode = expansion_mode
             /\ reader.channels = m_output_channels
             /\ Len(RolesOf(reader)) = m_output_channels
             /\ RolesOf(reader)[1] = "FRONT_LEFT"
             /\ RolesOf(reader)[2] = "FRONT_RIGHT"

C12_Witness ==
    /\ IsOpen
    /\ pc = "idle"
    /\ expansion_mode = "Surround71"
    /\ reader.mode = "Surround71"
    /\ Len(RolesOf(reader)) = 8

\* C13: the scratch buffer is freed or replaced only while no callback is in
\* flight and no running device can deliver one (a running device is destroyed
\* before the buffer goes), and a callback in flight works on an allocated
\* buffer whose length is the capacity it read.
C13_BufferStable ==
    /\ [][m_sample_buffer' # m_sample_buffer
             => /\ pc_cb = "idle"
                /\ ~DeviceRunning'
                /\ DeviceRunning => devStream' = 0]_vars
    /\ [](pc_cb = "read" => /\ ~m_sample_buffer.null
                            /\ m_sample_buffer.len = cb.cap
                            /\ m_sample_buffer_size = cb.cap)

C13_Witness ==
    /\ pc_cb = "read"
    /\ pc = "sp_set"
    /\ m_device_stream = 2
    /\ destroyed[1] = 1
    /\ cb.cap > 0

\* C14 as claimed: from the moment the callback is registered with the
\* backend, the scratch buffer is allocated, the capacity is final and the
\* reader has been passed to the base initialization.
C14_CompleteWhenRegistered ==
    devStream # 0 => /\ ~m_sample_buffer.null
                     /\ reader # NoReader
                     /\ openLog.result = "ok"

\* C14: whenever a callback can run or is running (the device has been
\* resumed), OpenDevice has returned, the scratch buffer is allocated with the
\* final capacity of this open and the reader has been selected.
C14_CompleteWhenRunning ==
    (DeviceRunning \/ pc_cb = "read")
        => /\ pc # "open_query"
           /\ pc # "OpenDevice"
           /\ openLog.result = "ok"
           /\ ~m_sample_buffer.null
           /\ m_sample_buffer.len = m_sample_buffer_size
           /\ m_sample_buffer_size = (openLog.obtained \div SampleSize) \div m_output_channels
           /\ reader.mode = expansion_mode

C14_Witness ==
    /\ DeviceRunning
    /\ cb.done
    /\ cb.frames > 0
    /\ reader.mode = expansion_mode

\* C15: between operations the scratch buffer is allocated exactly when the
\* device handle is non-null.
C15_SameLifetime ==
    (obj = "alive" /\ pc = "idle") => (~m_sample_buffer.null <=> IsOpen)

\* A step of CreateSDLAudioStream that runs InitializeSDLAudio.
CreateStep ==
    /\ pc = "idle"
    /\ obj = "none"
    /\ createLog'.result \in {"pending", "init_failed"}

\* C16: the subsystem is initialized successfully at most once and its
\* teardown registered exactly once, with the successful initialization; after
\* that no creation call initializes again, and a failed initialization leaves
\* the flag unset so that the next call tries again.
C16_InitOnce ==
    /\ [](/\ atexitCount <= 1
          /\ initialized <=> atexitCount = 1
          /\ createLog.sdlInit = "failed" => (~initialized /\ createLog.result = "init_failed")
          /\ createLog.sdlInit = "ok" => initialized)
    /\ [][/\ initialized => (initialized' /\ atexitCount' = atexitCount)
          /\ (CreateStep /\ initialized) => createLog'.sdlInit = "skipped"
          /\ (CreateStep /\ ~initialized) => createLog'.sdlInit \in {"ok", "failed"}]_vars

C16_Witness ==
    /\ initialized
    /\ atexitCount = 1
    /\ createLog.sdlInit = "skipped"
    /\ IsOpen

\* C17: a rejected hint changes nothing: the open fails exactly when the
\* backend refuses the device, and the capacity of an open stream is computed
\* from the granularity the backend reported and the channel count.
C17_HintNotFatal ==
    /\ openLog.result \in {"pending", "ok"} => (openLog.openOk /\ IsOpen)
    /\ openLog.result = "failed" => (~openLog.openOk /\ ~IsOpen)
    /\ (IsOpen /\ pc = "idle" /\ openLog.result = "ok")
          => /\ openLog.obtained \in {0, devFrames}
             /\ m_sample_buffer_size = (openLog.obtained \div SampleSize) \div m_output_channels

C17_Witness ==
    /\ IsOpen
    /\ pc = "idle"
    /\ openLog.result = "ok"
    /\ ~openLog.hintOk
    /\ m_sample_buffer_size > 0
    /\ openLog.hintFrames # openLog.obtained

\* A step of a SetPaused call.
SetPausedStep ==
    \/ pc = "sp_set"
    \/ pc' = "sp_set"
    \/ (spHist' # spHist /\ spHist' # <<>>)

\* C18: no callback step and no SetPaused step changes the capacity, the
\* scratch buffer or the device handle, and a callback step does not change
\* the paused flag either.
C18_Frame ==
    [][/\ pc_cb' # pc_cb
             => UNCHANGED <<m_sample_buffer_size, m_sample_buffer, m_device_stream, m_paused>>
       /\ SetPausedStep
             => UNCHANGED <<m_sample_buffer_size, m_sample_buffer, m_device_stream>>]_vars

C18_Witness ==
    /\ IsOpen
    /\ pc = "idle"
    /\ cb.done
    /\ spHist # <<>>
    /\ m_sample_buffer_size > 0
    /\ m_sample_buffer.len = m_sample_buffer_size

\* C19: when the device opened but the format query failed, the stream is
\* open with a non-null handle and capacity 0, and every callback pulls 0
\* frames whatever it was asked for.
C19_SilentWhenQueryFails ==
    (openLog.result = "ok" /\ ~openLog.queryOk)
        => /\ IsOpen
           /\ obj = "alive"
           /\ pc = "idle" => returned
           /\ m_sample_buffer_size = 0
           /\ pc_cb = "read" => num_frames = 0
           /\ cb.done => cb.frames = 0

C19_Witness ==
    /\ openLog.result = "ok"
    /\ ~openLog.queryOk
    /\ cb.done
    /\ cb.bytes = 2048
    /\ cb.req > 0
    /\ cb.frames = 0

\* C20: whenever the stream is open and no SetPaused call is in progress, the
\* recorded paused flag equals the backend device's paused state.
C20_FlagMatchesDevice ==
    (obj = "alive" /\ IsOpen /\ pc = "idle") => m_paused = devPaused
====
